---- MODULE Spec2Model ----
(***************************************************************************)
(* A model of src/app.py (MSLearnParser and the two Flask handlers          *)
(* load_module and load_section).                                          *)
(*                                                                         *)
(* Markup is a tree of nodes; a node is a record                            *)
(*   [tag, attrs, text, kids]                                               *)
(* where tag is the element name ("#text" for a text node and "[document]"  *)
(* for the BeautifulSoup root), attrs is a function from attribute names to *)
(* values, text is the character sequence of a text node and kids is the    *)
(* sequence of child nodes.  A Python str is a sequence of one-character    *)
(* strings; a class attribute is a sequence of class names.  A serialised   *)
(* document (what str(soup) returns) is a sequence of tokens.               *)
(***************************************************************************)
EXTENDS Integers, Sequences, FiniteSets, TLC

VARIABLES doc, module, resp, cleanRun, urlRun

vars == <<doc, module, resp, cleanRun, urlRun>>

(***************************************************************************)
(* Bounds of the model.                                                    *)
(***************************************************************************)
\* the number of li.module-unit candidates of a unit list is at most this
MaxUnits == 2
\* the number of top-level nodes of a content tree given to clean_content
MaxTop == 2
\* the number of times clean_content is applied in a row
MaxPasses == 2
\* the number of references in the markup given to fix_relative_urls
MaxRefs == 2

(***************************************************************************)
(* Python values.                                                          *)
(***************************************************************************)
\* None, where a str may stand
None == <<"None">>

WS == {" ", "\n"}

RECURSIVE LStrip(_)
LStrip(s) == IF s = <<>> THEN s
             ELSE IF Head(s) \in WS THEN LStrip(Tail(s)) ELSE s

RECURSIVE RStrip(_)
RStrip(s) == IF s = <<>> THEN s
             ELSE IF s[Len(s)] \in WS THEN RStrip(SubSeq(s, 1, Len(s) - 1)) ELSE s

\* str.strip()
Strip(s) == RStrip(LStrip(s))

\* str.startswith(p)
StartsWith(s, p) == Len(s) >= Len(p) /\ SubSeq(s, 1, Len(p)) = p

\* str.find(c) for a one-character c: the first index (1-based), 0 when absent
RECURSIVE FindFrom(_, _, _)
FindFrom(s, cs, i) == IF i > Len(s) THEN 0
                      ELSE IF s[i] \in cs THEN i ELSE FindFrom(s, cs, i + 1)

FindChar(s, c) == FindFrom(s, {c}, 1)

\* p in s  (substring test)
Contains(s, p) == \E i \in 1..(Len(s) - Len(p) + 1) : SubSeq(s, i, i + Len(p) - 1) = p

RECURSIVE Concat(_)
Concat(ss) == IF ss = <<>> THEN <<>> ELSE Head(ss) \o Concat(Tail(ss))

(***************************************************************************)
(* Markup trees and the BeautifulSoup queries the program uses.            *)
(***************************************************************************)
NoAttrs == [k \in {} |-> <<>>]

Text(t) == [tag |-> "#text", attrs |-> NoAttrs, text |-> t, kids |-> <<>>]

Elem(tg, at, ks) == [tag |-> tg, attrs |-> at, text |-> <<>>, kids |-> ks]

Soup(ks) == Elem("[document]", NoAttrs, ks)

\* None, where a node may stand
NoNode == Elem("#none", NoAttrs, <<>>)

HasAttr(n, k) == k \in DOMAIN n.attrs

\* class_=c : one of the node's class names is c
HasClass(n, c) == HasAttr(n, "class") /\ \E i \in 1..Len(n.attrs["class"]) : n.attrs["class"][i] = c

\* the descendants of a node in document order (Tag.descendants)
RECURSIVE Descendants(_)
RECURSIVE DescendantsOfSeq(_)
Descendants(n) == DescendantsOfSeq(n.kids)
DescendantsOfSeq(ks) == IF ks = <<>> THEN <<>>
                        ELSE <<Head(ks)>> \o Descendants(Head(ks)) \o DescendantsOfSeq(Tail(ks))

\* Tag.get_text(): the text of every text descendant, concatenated
RECURSIVE TextOfSeq(_)
TextOfSeq(ns) == IF ns = <<>> THEN <<>>
                 ELSE (IF Head(ns).tag = "#text" THEN Head(ns).text ELSE <<>>) \o TextOfSeq(Tail(ns))

GetText(n) == IF n.tag = "#text" THEN n.text ELSE TextOfSeq(Descendants(n))

\* what find, find_all and select_one are given: a tag name ("*" for any)
\* and, unless attr is "", the value an attribute must have (for class, one
\* of the class names)
ByTag(tg) == [tag |-> tg, attr |-> "", val |-> ""]

ByAttr(tg, a, v) == [tag |-> tg, attr |-> a, val |-> v]

Matches(n, sel) ==
    /\ n.tag \notin {"#text", "[document]"}
    /\ sel.tag = "*" \/ n.tag = sel.tag
    /\ \/ sel.attr = ""
       \/ sel.attr = "class" /\ HasClass(n, sel.val)
       \/ sel.attr # "class" /\ HasAttr(n, sel.attr) /\ n.attrs[sel.attr] = sel.val

FindAll(n, sel) == SelectSeq(Descendants(n), LAMBDA d : Matches(d, sel))

\* the first result, None when there is none
First(r) == IF r = <<>> THEN NoNode ELSE Head(r)

Find(n, sel) == First(FindAll(n, sel))

\* x or y, for BeautifulSoup results (a Tag is truthy even when it is empty)
OrElse(x, y) == IF x # NoNode THEN x ELSE y

\* decompose() of every node that find_all(P) returned
RECURSIVE RemoveAll(_, _)
RECURSIVE RemoveAllSeq(_, _)
RemoveAll(n, tags) == [n EXCEPT !.kids = RemoveAllSeq(n.kids, tags)]
RemoveAllSeq(ks, tags) ==
    IF ks = <<>> THEN <<>>
    ELSE IF Head(ks).tag \in tags THEN RemoveAllSeq(Tail(ks), tags)
    ELSE <<RemoveAll(Head(ks), tags)>> \o RemoveAllSeq(Tail(ks), tags)

(***************************************************************************)
(* str(node) and BeautifulSoup(html, 'html.parser').  A serialised          *)
(* document is a sequence of tokens: an opening tag with its attributes, a  *)
(* closing tag, or a run of characters.  Two runs of characters that are    *)
(* adjacent in the string are one run.                                     *)
(***************************************************************************)
VoidTags == {"img"}

OpenTok(n) == [k |-> "open", tag |-> n.tag, attrs |-> n.attrs, text |-> <<>>]

TextTok(t) == [k |-> "text", tag |-> "#text", attrs |-> NoAttrs, text |-> t]

\* string concatenation of two serialised fragments
Join(a, b) ==
    IF a = <<>> THEN b
    ELSE IF b = <<>> THEN a
    ELSE IF a[Len(a)].k = "text" /\ b[1].k = "text"
         THEN SubSeq(a, 1, Len(a) - 1) \o <<TextTok(a[Len(a)].text \o b[1].text)>> \o Tail(b)
         ELSE a \o b

RECURSIVE Serialize(_)
RECURSIVE SerializeSeq(_)
Serialize(n) ==
    IF n.tag = "#text" THEN (IF n.text = <<>> THEN <<>> ELSE <<TextTok(n.text)>>)
    ELSE IF n.tag = "[document]" THEN SerializeSeq(n.kids)
    ELSE IF n.tag \in VoidTags THEN <<OpenTok(n)>>
    ELSE Join(Join(<<OpenTok(n)>>, SerializeSeq(n.kids)), <<[k |-> "close", tag |-> n.tag, attrs |-> NoAttrs, text |-> <<>>]>>)
SerializeSeq(ks) == IF ks = <<>> THEN <<>> ELSE Join(Serialize(Head(ks)), SerializeSeq(Tail(ks)))

\* the parser keeps a stack of open elements, the document at the bottom
AppendKid(stack, kid) ==
    [stack EXCEPT ![Len(stack)].kids = Append(@, kid)]

RECURSIVE ParseFrom(_, _, _)
ParseFrom(toks, i, stack) ==
    IF i > Len(toks)
    THEN IF Len(stack) = 1 THEN stack[1]
         ELSE ParseFrom(toks, i, AppendKid(SubSeq(stack, 1, Len(stack) - 1), stack[Len(stack)]))
    ELSE LET t == toks[i] IN
         IF t.k = "text" THEN ParseFrom(toks, i + 1, AppendKid(stack, Text(t.text)))
         ELSE IF t.k = "open" /\ t.tag \in VoidTags
              THEN ParseFrom(toks, i + 1, AppendKid(stack, Elem(t.tag, t.attrs, <<>>)))
         ELSE IF t.k = "open"
              THEN ParseFrom(toks, i + 1, Append(stack, Elem(t.tag, t.attrs, <<>>)))
         ELSE IF Len(stack) = 1 THEN ParseFrom(toks, i + 1, stack)
         ELSE ParseFrom(toks, i + 1, AppendKid(SubSeq(stack, 1, Len(stack) - 1), stack[Len(stack)]))

\* BeautifulSoup(html, 'html.parser')
Parse(toks) == ParseFrom(toks, 1, <<Soup(<<>>)>>)

(***************************************************************************)
(* urllib.parse.urljoin, for references without a query or parameters.      *)
(* Characters are lower case, so str.lower() of a scheme changes nothing.   *)
(***************************************************************************)
SchemeChars == {"a", "b", "c", "d", "e", "f", "g", "h", "i", "j", "k", "l", "m",
                "n", "o", "p", "q", "r", "s", "t", "u", "v", "w", "x", "y", "z",
                "0", "1", "2", "3", "4", "5", "6", "7", "8", "9", "+", "-", "."}

UsesRelative == {<<>>, <<"h", "t", "t", "p">>, <<"h", "t", "t", "p", "s">>, <<"f", "t", "p">>}

UsesNetloc == UsesRelative

\* s.split(c)
RECURSIVE Split(_, _)
Split(s, c) == LET i == FindChar(s, c) IN
               IF i = 0 THEN <<s>>
               ELSE <<SubSeq(s, 1, i - 1)>> \o Split(SubSeq(s, i + 1, Len(s)), c)

\* c.join(parts)
RECURSIVE JoinWith(_, _)
JoinWith(parts, c) == IF parts = <<>> THEN <<>>
                      ELSE IF Len(parts) = 1 THEN parts[1]
                      ELSE parts[1] \o <<c>> \o JoinWith(Tail(parts), c)

\* urlsplit: the scheme, when the text before the first ':' is one
HasScheme(url, i) ==
    /\ i > 1
    /\ url[1] \in SchemeChars \ {"0", "1", "2", "3", "4", "5", "6", "7", "8", "9", "+", "-", "."}
    /\ \A j \in 1..(i - 1) : url[j] \in SchemeChars

SchemeAt(url, i, dflt) ==
    IF HasScheme(url, i)
    THEN [scheme |-> SubSeq(url, 1, i - 1), rest |-> SubSeq(url, i + 1, Len(url))]
    ELSE [scheme |-> dflt, rest |-> url]

\* urlsplit: the netloc, from '//' to the next '/', '?' or '#' at index e
NetlocAt(rest, e) ==
    IF e = 0 THEN [netloc |-> SubSeq(rest, 3, Len(rest)), rest |-> <<>>]
    ELSE [netloc |-> SubSeq(rest, 3, e - 1), rest |-> SubSeq(rest, e, Len(rest))]

SplitNetloc(rest) ==
    IF StartsWith(rest, <<"/", "/">>) THEN NetlocAt(rest, FindFrom(rest, {"/", "?", "#"}, 3))
    ELSE [netloc |-> <<>>, rest |-> rest]

\* urlsplit: the fragment, after the first '#' at index h
FragmentAt(scheme, netloc, rest, h) ==
    [scheme   |-> scheme,
     netloc   |-> netloc,
     path     |-> IF h = 0 THEN rest ELSE SubSeq(rest, 1, h - 1),
     fragment |-> IF h = 0 THEN <<>> ELSE SubSeq(rest, h + 1, Len(rest))]

SplitFragment(scheme, n) == FragmentAt(scheme, n.netloc, n.rest, FindChar(n.rest, "#"))

SplitAfterScheme(s) == SplitFragment(s.scheme, SplitNetloc(s.rest))

\* urlsplit(url, default scheme): scheme, netloc, path and fragment
UrlSplit(url, dflt) == SplitAfterScheme(SchemeAt(url, FindChar(url, ":"), dflt))

\* urlunsplit
UrlUnsplit(scheme, netloc, path, fragment) ==
    (IF scheme # <<>> THEN scheme \o <<":">> ELSE <<>>)
    \o (IF netloc # <<>> \/ (scheme # <<>> /\ scheme \in UsesNetloc /\ ~StartsWith(path, <<"/", "/">>))
        THEN <<"/", "/">> \o netloc \o (IF path # <<>> /\ path[1] # "/" THEN <<"/">> ELSE <<>>)
        ELSE <<>>)
    \o path
    \o (IF fragment # <<>> THEN <<"#">> \o fragment ELSE <<>>)

\* the loop of urljoin over the path segments: '..' pops, '.' is skipped
RECURSIVE ResolveSegments(_, _)
ResolveSegments(segs, acc) ==
    IF segs = <<>> THEN acc
    ELSE IF Head(segs) = <<".", ".">>
         THEN ResolveSegments(Tail(segs), IF acc = <<>> THEN acc ELSE SubSeq(acc, 1, Len(acc) - 1))
    ELSE IF Head(segs) = <<".">> THEN ResolveSegments(Tail(segs), acc)
    ELSE ResolveSegments(Tail(segs), Append(acc, Head(segs)))

\* segments[1:-1] = filter(None, segments[1:-1])
DropInnerEmpty(segs) ==
    IF Len(segs) <= 2 THEN segs
    ELSE <<segs[1]>> \o SelectSeq(SubSeq(segs, 2, Len(segs) - 1), LAMBDA x : x # <<>>) \o <<segs[Len(segs)]>>

\* base_parts: bpath.split('/') without its last part, unless that is empty
BaseParts(parts) == IF parts[Len(parts)] # <<>> THEN SubSeq(parts, 1, Len(parts) - 1) ELSE parts

\* the resolved path of the given segments
ResolvedPath(segs) ==
    JoinWith(ResolveSegments(segs, <<>>)
             \o (IF segs[Len(segs)] \in {<<".">>, <<".", ".">>} THEN << <<>> >> ELSE <<>>), "/")

\* '/'.join(resolved_path) or '/'
OrSlash(p) == IF p = <<>> THEN <<"/">> ELSE p

\* urljoin, once base and url are split
JoinSplit(b, u, url) ==
    IF u.scheme # b.scheme \/ u.scheme \notin UsesRelative THEN url
    ELSE IF u.scheme \in UsesNetloc /\ u.netloc # <<>>
         THEN UrlUnsplit(u.scheme, u.netloc, u.path, u.fragment)
    ELSE IF u.path = <<>>
         THEN UrlUnsplit(u.scheme, IF u.scheme \in UsesNetloc THEN b.netloc ELSE u.netloc, b.path, u.fragment)
    ELSE UrlUnsplit(u.scheme, IF u.scheme \in UsesNetloc THEN b.netloc ELSE u.netloc,
                    OrSlash(ResolvedPath(IF u.path[1] = "/" THEN Split(u.path, "/")
                                         ELSE DropInnerEmpty(BaseParts(Split(b.path, "/")) \o Split(u.path, "/")))),
                    u.fragment)

JoinWithBase(b, url) == JoinSplit(b, UrlSplit(url, b.scheme), url)

urljoin(base, url) ==
    IF base = <<>> THEN url
    ELSE IF url = <<>> THEN base
    ELSE JoinWithBase(UrlSplit(base, <<>>), url)

(***************************************************************************)
(* MSLearnParser.fix_relative_urls                                         *)
(***************************************************************************)
S_http == <<"h", "t", "t", "p">>

S_hash == <<"#">>

\* img.get('src') / link.get('href'): None when the attribute is missing
GetAttr(n, k) == IF HasAttr(n, k) THEN n.attrs[k] ELSE None

Truthy(v) == v # None /\ v # <<>>

\* the test of the img loop: the source is rewritten
ImgRewritten(src) == Truthy(src) /\ ~StartsWith(src, S_http) /\ ~StartsWith(src, <<"d", "a", "t", "a", ":">>)

\* the test of the link loop: the reference is rewritten
LinkRewritten(href) ==
    Truthy(href) /\ ~StartsWith(href, S_http) /\ ~StartsWith(href, S_hash) /\ ~StartsWith(href, <<"m", "a", "i", "l", "t", "o", ":">>)

FixNode(n, base_url) ==
    IF n.tag = "img" /\ ImgRewritten(GetAttr(n, "src"))
    THEN [n EXCEPT !.attrs["src"] = urljoin(base_url, @)]
    ELSE IF n.tag = "a" /\ LinkRewritten(GetAttr(n, "href"))
    THEN [n EXCEPT !.attrs["href"] = urljoin(base_url, @)]
    ELSE n

RECURSIVE FixTree(_, _)
RECURSIVE FixSeq(_, _)
FixTree(n, base_url) == [FixNode(n, base_url) EXCEPT !.kids = FixSeq(n.kids, base_url)]
FixSeq(ks, base_url) == IF ks = <<>> THEN <<>>
                        ELSE <<FixTree(Head(ks), base_url)>> \o FixSeq(Tail(ks), base_url)

fix_relative_urls(html, base_url) == Serialize(FixTree(Parse(html), base_url))

(***************************************************************************)
(* MSLearnParser.clean_content                                             *)
(***************************************************************************)
CleanNoise == {"script", "style", "nav", "header", "footer"}

ChromeClasses == {"achievements", "progress", "completion", "module-completion"}

AllowedAttrs == {"href", "src", "alt", "title", "class", "colspan", "rowspan", "data-linktype"}

\* not elem.get_text().strip() and not elem.find('img')
IsEmptyBlock(n) ==
    n.tag \in {"p", "div"} /\ Strip(GetText(n)) = <<>> /\ Find(n, ByTag("img")) = NoNode

RECURSIVE RemoveEmpty(_)
RECURSIVE RemoveEmptySeq(_)
RemoveEmpty(n) == [n EXCEPT !.kids = RemoveEmptySeq(n.kids)]
RemoveEmptySeq(ks) ==
    IF ks = <<>> THEN <<>>
    ELSE IF IsEmptyBlock(Head(ks)) THEN RemoveEmptySeq(Tail(ks))
    ELSE <<RemoveEmpty(Head(ks))>> \o RemoveEmptySeq(Tail(ks))

\* soup.find('h1') followed by decompose(): only the first one in document order
RECURSIVE RemoveFirstH1(_)
RECURSIVE RemoveFirstH1Seq(_)
RemoveFirstH1(n) == [n EXCEPT !.kids = RemoveFirstH1Seq(n.kids)]
RemoveFirstH1Seq(ks) ==
    IF ks = <<>> THEN <<>>
    ELSE IF Head(ks).tag = "h1" THEN Tail(ks)
    ELSE IF Find(Head(ks), ByTag("h1")) # NoNode THEN <<RemoveFirstH1(Head(ks))>> \o Tail(ks)
    ELSE <<Head(ks)>> \o RemoveFirstH1Seq(Tail(ks))

IsChrome(n) == n.tag = "div" /\ \E c \in ChromeClasses : HasClass(n, c)

RECURSIVE RemoveChrome(_)
RECURSIVE RemoveChromeSeq(_)
RemoveChrome(n) == [n EXCEPT !.kids = RemoveChromeSeq(n.kids)]
RemoveChromeSeq(ks) ==
    IF ks = <<>> THEN <<>>
    ELSE IF IsChrome(Head(ks)) THEN RemoveChromeSeq(Tail(ks))
    ELSE <<RemoveChrome(Head(ks))>> \o RemoveChromeSeq(Tail(ks))

RECURSIVE FilterAttrs(_)
RECURSIVE FilterAttrsSeq(_)
FilterAttrs(n) ==
    [n EXCEPT !.attrs = [k \in (DOMAIN n.attrs) \cap AllowedAttrs |-> n.attrs[k]],
              !.kids  = FilterAttrsSeq(n.kids)]
FilterAttrsSeq(ks) == IF ks = <<>> THEN <<>>
                      ELSE <<FilterAttrs(Head(ks))>> \o FilterAttrsSeq(Tail(ks))

Placeholder(t) == Serialize(Elem("p", NoAttrs, <<Text(t)>>))

clean_content(content, base_url) ==
    IF content = NoNode THEN Placeholder(<<"N", "o", " ", "c", "o", "n", "t", "e", "n", "t", " ", "f", "o", "u", "n", "d">>)
    ELSE LET html  == fix_relative_urls(Serialize(content), base_url)
             soup0 == Parse(html)
             soup1 == RemoveAll(soup0, CleanNoise)
             soup2 == RemoveEmpty(soup1)
             soup3 == RemoveFirstH1(soup2)
             soup4 == RemoveChrome(soup3)
             soup5 == FilterAttrs(soup4)
         IN  Serialize(soup5)

(***************************************************************************)
(* MSLearnParser.extract_navigation                                        *)
(***************************************************************************)
Digits == <<"0", "1", "2", "3", "4", "5", "6", "7", "8", "9">>

\* str(i) of a natural number
RECURSIVE Decimal(_)
Decimal(i) == IF i < 10 THEN <<Digits[i + 1]>> ELSE Decimal(i \div 10) \o <<Digits[(i % 10) + 1]>>

S_section == <<"s", "e", "c", "t", "i", "o", "n", "-">>

\* f'section-{i}'
SectionId(i) == S_section \o Decimal(i)

S_MainContent == <<"M", "a", "i", "n", " ", "C", "o", "n", "t", "e", "n", "t">>

FallbackSections ==
    << [title |-> <<"I", "n", "t", "r", "o", "d", "u", "c", "t", "i", "o", "n">>, content |-> <<>>, id |-> SectionId(0), href |-> <<"#", "i", "n", "t", "r", "o">>],
       [title |-> S_MainContent, content |-> <<>>, id |-> SectionId(1), href |-> <<"#", "m", "a", "i", "n">>] >>

\* link.get('href', '')
HrefOf(link) == IF HasAttr(link, "href") THEN link.attrs["href"] ELSE <<>>

\* the link of a unit: module-unit -> barLink -> a
LinkUnder(bar_link) == IF bar_link = NoNode THEN NoNode ELSE Find(bar_link, ByTag("a"))

\* a variant that admits a label of three characters
Admitted_AtLeast3(title) == title # <<>> /\ Len(title) >= 3

\* if title and len(title) > 3
Admitted(title) == title # <<>> /\ Len(title) > 3

\* sections.append(...) for the unit at index i, when its title is admitted
TitledEntry(title, href, i) ==
    IF Admitted(title)
    THEN << [title |-> title, content |-> <<>>, id |-> SectionId(i), href |-> href] >>
    ELSE <<>>

\* the body of the loop for the unit at index i with the given link
UnitEntry(link, i) ==
    IF link = NoNode THEN <<>> ELSE TitledEntry(Strip(GetText(link)), HrefOf(link), i)

\* the loop over enumerate(units), from index i (1-based in units)
RECURSIVE UnitSections(_, _)
UnitSections(units, i) ==
    IF i > Len(units) THEN <<>>
    ELSE UnitEntry(LinkUnder(Find(units[i], ByAttr("div", "class", "barLink"))), i - 1) \o UnitSections(units, i + 1)

\* the sections found under the unit list
SectionsOf(unit_list) ==
    IF unit_list = NoNode THEN <<>>
    ELSE UnitSections(FindAll(unit_list, ByAttr("li", "class", "module-unit")), 1)

\* a variant without the fallback
OrFallback_Never(sections) == sections

\* if not sections: the fallback
OrFallback(sections) == IF sections = <<>> THEN FallbackSections ELSE sections

extract_navigation(soup) == OrFallback(SectionsOf(Find(soup, ByAttr("ul", "id", "unit-list"))))

(***************************************************************************)
(* MSLearnParser.extract_main_content                                      *)
(***************************************************************************)
SelectorNoise == {"script", "style", "nav", "header", "footer", "aside"}

\* content_selectors, in order
ContentSelectors == << ByTag("main"), ByAttr("*", "role", "main"), ByAttr("*", "class", "content"),
                       ByAttr("*", "class", "main-content"), ByTag("article"),
                       ByAttr("*", "class", "markdown-body") >>

\* the loop over content_selectors, from the i-th: the first match, else None
RECURSIVE SelectFirst(_, _)
SelectFirst(soup, i) ==
    IF i > Len(ContentSelectors) THEN NoNode
    ELSE OrElse(Find(soup, ContentSelectors[i]), SelectFirst(soup, i + 1))

\* the loop, then soup.find('body') or soup
SelectContentArea(soup) == OrElse(SelectFirst(soup, 1), OrElse(Find(soup, ByTag("body")), soup))

\* the node that extract_main_content hands to clean_content
MainContentNode(soup) == SelectContentArea(RemoveAll(soup, SelectorNoise))

extract_main_content(soup, base_url) == clean_content(MainContentNode(soup), base_url)

(***************************************************************************)
(* MSLearnParser.parse_content and fetch_module                            *)
(***************************************************************************)
S_DefaultTitle == <<"M", "i", "c", "r", "o", "s", "o", "f", "t", " ", "L", "e", "a", "r", "n", "i", "n", "g", " ", "M", "o", "d", "u", "l", "e">>

\* title_elem.get_text().strip() if title_elem else the default
TitleOf(title_elem) == IF title_elem # NoNode THEN Strip(GetText(title_elem)) ELSE S_DefaultTitle

\* nav_sections if nav_sections else the single 'Main Content' section
SectionsOrMain(nav_sections, soup, base_url) ==
    IF nav_sections # <<>> THEN nav_sections
    ELSE << [title |-> S_MainContent, content |-> extract_main_content(soup, base_url),
             id |-> <<"m", "a", "i", "n">>] >>

ParsedModule(soup, base_url) ==
    [title    |-> TitleOf(OrElse(Find(soup, ByTag("h1")), Find(soup, ByTag("title")))),
     sections |-> SectionsOrMain(extract_navigation(soup), soup, base_url),
     url      |-> base_url]

parse_content(html, base_url) == ParsedModule(Parse(html), base_url)

(***************************************************************************)
(* MSLearnParser.fetch_section_content, given the text of the fetched page *)
(***************************************************************************)
\* soup.find('main') or soup.find('[role="main"]'), then
\* soup.find('div', class_='content') or soup.find('article'); the second
\* find looks for a tag of that name
SectionContentNode(soup) ==
    OrElse(OrElse(Find(soup, ByTag("main")), Find(soup, ByTag("[role=\"main\"]"))),
           OrElse(Find(soup, ByAttr("div", "class", "content")), Find(soup, ByTag("article"))))

S_ContentNotFound == <<"C", "o", "n", "t", "e", "n", "t", " ", "n", "o", "t", " ", "f", "o", "u", "n", "d", " ", "o", "n", " ", "t", "h", "i", "s", " ", "p", "a", "g", "e">>

CleanOrNotFound(main_content, section_url) ==
    IF main_content # NoNode THEN clean_content(main_content, section_url)
    ELSE Placeholder(S_ContentNotFound)

fetch_section_content(html, section_url) == CleanOrNotFound(SectionContentNode(Parse(html)), section_url)

(***************************************************************************)
(* The outcome of session.get(...) followed by raise_for_status(): the      *)
(* text of the page, or an exception with a message.                       *)
(***************************************************************************)
E_timeout == <<"t", "i", "m", "e", "d", " ", "o", "u", "t">>

FetchErrors == {E_timeout, <<"4", "0", "4", " ", "C", "l", "i", "e", "n", "t", " ", "E", "r", "r", "o", "r">>}

FetchOk(html) == [ok |-> TRUE, text |-> html, error |-> <<>>]

FetchFail(e) == [ok |-> FALSE, text |-> <<>>, error |-> e]

\* no call was made
NoFetch == FetchFail(None)

S_FailedModule == <<"F", "a", "i", "l", "e", "d", " ", "t", "o", " ", "f", "e", "t", "c", "h", " ", "m", "o", "d", "u", "l", "e", ":", " ">>

S_FailedSection == <<"F", "a", "i", "l", "e", "d", " ", "t", "o", " ", "f", "e", "t", "c", "h", " ", "s", "e", "c", "t", "i", "o", "n", " ", "c", "o", "n", "t", "e", "n", "t", ":", " ">>

(***************************************************************************)
(* The handlers.  A response is a record; render_template is an external    *)
(* collaborator and a rendered page is the record of what it was given.     *)
(***************************************************************************)
NoSection == [title |-> None, content |-> <<>>, id |-> None, href |-> None]

NoModule == [title |-> None, sections |-> <<>>, url |-> None]

NoResp == [handler |-> "none", status |-> 0, kind |-> "none", title |-> <<>>,
           content |-> <<>>, sections |-> <<>>, section |-> NoSection,
           section_id |-> None, url |-> None, modFetch |-> NoFetch, secFetch |-> NoFetch,
           section_url |-> <<>>, error |-> <<>>]

S_learn == <<"l", "e", "a", "r", "n", ".", "m", "i", "c", "r", "o", "s", "o", "f", "t", ".", "c", "o", "m">>

S_docs == <<"d", "o", "c", "s", ".", "m", "i", "c", "r", "o", "s", "o", "f", "t", ".", "c", "o", "m", "/", "l", "e", "a", "r", "n">>

S_host == <<"h", "t", "t", "p", "s", ":", "/", "/", "l", "e", "a", "r", "n", ".", "m", "i", "c", "r", "o", "s", "o", "f", "t", ".", "c", "o", "m">>

S_ErrorPrefix == <<"E", "r", "r", "o", "r", ":", " ">>

S_ErrorLoadingSection == <<"E", "r", "r", "o", "r", " ", "l", "o", "a", "d", "i", "n", "g", " ", "s", "e", "c", "t", "i", "o", "n", ":", " ">>

S_ErrorLoadingContent == <<"E", "r", "r", "o", "r", " ", "l", "o", "a", "d", "i", "n", "g", " ", "c", "o", "n", "t", "e", "n", "t", " ", "f", "o", "r", " ">>

S_ContentFor == <<"C", "o", "n", "t", "e", "n", "t", " ", "f", "o", "r", " ">>

\* the response of load_module to a url that is not accepted, a response of
\* kind "none" when the url is accepted
UrlRejected(req, url) ==
    IF url = <<>> THEN [req EXCEPT !.status = 400, !.kind = "MissingUrl"]
    ELSE IF ~(Contains(url, S_learn) \/ Contains(url, S_docs))
         THEN [req EXCEPT !.status = 400, !.kind = "InvalidUrl"]
    ELSE req

\* the rendered navigation and content of a module
ModuleLoaded(req, module_data) ==
    [req EXCEPT !.status = 200, !.kind = "Module",
                !.sections = module_data.sections,
                !.content = IF module_data.sections # <<>>
                            THEN module_data.sections[1].content ELSE <<>>,
                !.title = module_data.title]

\* the try block of load_module
ModuleFetched(req, url, fetch) ==
    IF ~fetch.ok
    THEN [req EXCEPT !.status = 500, !.kind = "Error",
                     !.error = S_ErrorPrefix \o S_FailedModule \o fetch.error]
    ELSE ModuleLoaded(req, parse_content(fetch.text, url))

ModuleRequest(form_url, fetch) ==
    [NoResp EXCEPT !.handler = "load_module", !.url = form_url, !.modFetch = fetch]

load_module(form_url, fetch) ==
    IF UrlRejected(ModuleRequest(form_url, fetch), Strip(form_url)).kind # "none"
    THEN UrlRejected(ModuleRequest(form_url, fetch), Strip(form_url))
    ELSE ModuleFetched(ModuleRequest(form_url, fetch), Strip(form_url), fetch)

IsDecimal(s) == s # <<>> /\ \A i \in 1..Len(s) : \E d \in 1..10 : Digits[d] = s[i]

DigitValue(c) == (CHOOSE d \in 1..10 : Digits[d] = c) - 1

\* int(s) of a string of decimal digits
RECURSIVE IntOf(_)
IntOf(s) == IF Len(s) = 1 THEN DigitValue(s[1])
            ELSE 10 * IntOf(SubSeq(s, 1, Len(s) - 1)) + DigitValue(s[Len(s)])

\* section_id.split('-')[-1]
LastPart(section_id) == LET parts == Split(section_id, "-") IN parts[Len(parts)]

\* the absolute address of a section's page
SectionUrl(url, href) == IF StartsWith(href, <<"/">>) THEN S_host \o href ELSE urljoin(url, href)

\* int(section_id.split('-')[-1]) if 'section-' in section_id else 0;
\* -1 stands for the ValueError that int() raises
SectionIndex(section_id) ==
    IF Contains(section_id, S_section)
    THEN (IF IsDecimal(LastPart(section_id)) THEN IntOf(LastPart(section_id)) ELSE -1)
    ELSE 0

\* the request, as far as the handler has read it
SectionRequest(section_id, url) ==
    [NoResp EXCEPT !.handler = "load_section", !.section_id = section_id, !.url = url]

\* return '<div class="error">Section not found</div>', 404
SectionNotFound(req) == [req EXCEPT !.status = 404, !.kind = "SectionNotFound"]

\* the outer except clause: a response with status 500
SectionError(req, e) ==
    [req EXCEPT !.status = 500, !.kind = "Error", !.error = S_ErrorLoadingSection \o e]

\* what the handler returns before it fetches anything; a response of kind
\* "none" when it goes on to fetch the module
BeforeFetch(req) ==
    IF req.section_id = None \/ req.section_id = <<>>
    THEN [req EXCEPT !.status = 400, !.kind = "MissingSectionId"]
    ELSE IF SectionIndex(req.section_id) < 0 THEN SectionError(req, <<"i", "n", "v", "a", "l", "i", "d", " ", "l", "i", "t", "e", "r", "a", "l", " ", "f", "o", "r", " ", "i", "n", "t", "(", ")", " ", "w", "i", "t", "h", " ", "b", "a", "s", "e", " ", "1", "0">>)
    ELSE IF req.url = None \/ req.url = <<>> THEN SectionNotFound(req)
    ELSE req

\* the section a request resolves to, NoSection when the index is out of range
ResolveSection(module_data, section_index) ==
    IF section_index < Len(module_data.sections)
    THEN module_data.sections[section_index + 1]
    ELSE NoSection

\* the section has a reference to a page of its own
HasPage(section) == section.href # <<>> /\ ~StartsWith(section.href, S_hash)

SectionFound(req, section) ==
    [req EXCEPT !.status = 200, !.kind = "Section", !.section = section, !.title = section.title]

\* a variant without the inner except clause: the failure reaches the outer one
FetchErrorShown_Propagates(found, title, e) ==
    SectionError([found EXCEPT !.section = NoSection, !.title = <<>>], S_FailedSection \o e)

\* the inner except clause: the placeholder with the title and the error
FetchErrorShown(found, title, e) ==
    [found EXCEPT !.content = Placeholder(S_ErrorLoadingContent \o title \o <<":", " ">> \o S_FailedSection \o e)]

\* the inner try, for the page at section_url
PageAt(found, section_url, secFetch) ==
    IF secFetch.ok
    THEN [found EXCEPT !.section_url = section_url,
                       !.content = fetch_section_content(secFetch.text, section_url)]
    ELSE FetchErrorShown([found EXCEPT !.section_url = section_url], found.title, secFetch.error)

PageContent(req, section, secFetch) ==
    PageAt(SectionFound(req, section), SectionUrl(req.url, section.href), secFetch)

\* section['content'] if section['content'] else f"<p>Content for {section['title']}</p>"
StoredContent(req, section) ==
    [SectionFound(req, section) EXCEPT !.content =
        IF section.content # <<>> THEN section.content
        ELSE Placeholder(S_ContentFor \o section.title)]

(***************************************************************************)
(* The documents of the model.                                             *)
(***************************************************************************)
ModuleUrl == <<"h", "t", "t", "p", "s", ":", "/", "/", "l", "e", "a", "r", "n", ".", "m", "i", "c", "r", "o", "s", "o", "f", "t", ".", "c", "o", "m", "/", "m", "/", "a", "/">>

Para(t) == Elem("p", NoAttrs, <<Text(t)>>)

Img(src) == Elem("img", ("src" :> src) @@ ("width" :> <<"9">>), <<>>)

LinkA(href, t) == Elem("a", "href" :> href, <<Text(t)>>)

Unit(ks) == Elem("li", ("class" :> <<"module-unit">>) @@ ("data-unit" :> <<"u">>), ks)

Bar(ks) == Elem("div", "class" :> <<"barLink", "font-size-sm">>, ks)

\* a label of three characters once trimmed
U_short == Unit(<<Bar(<<LinkA(<<"u", "1">>, <<" ", "T", "o", "p", " ">>)>>)>>)

UnitKinds == {
    \* a link that is not under the wrapper node
    Unit(<<LinkA(<<"u", "0">>, <<"O", "v", "e", "r", "v", "i", "e", "w">>)>>),
    U_short,
    \* a label of four characters once trimmed, a relative reference
    Unit(<<Bar(<<LinkA(<<"u", "2">>, <<" ", "U", "n", "i", "t", "\n">>)>>)>>),
    \* a fragment-only reference
    Unit(<<Bar(<<LinkA(<<"#", "s", "u", "m">>, <<"S", "u", "m", "m", "a", "r", "y">>)>>)>>) }

\* the unit lists: absent (the empty option), or a list of up to MaxUnits
\* candidates
UnitLists == {<<>>} \cup {<<ul>> : ul \in UNION {[1..n -> UnitKinds] : n \in 0..MaxUnits}}

Opt(x, n) == IF x = None THEN <<>> ELSE <<n>>

UnitListNode(ul) == IF ul = <<>> THEN <<>> ELSE <<Elem("ul", "id" :> "unit-list", ul[1])>>

ModuleDoc(t, h, ul) ==
    Soup(<<Elem("html", NoAttrs,
        << Elem("head", NoAttrs, Opt(t, Elem("title", NoAttrs, <<Text(t)>>))),
           Elem("body", NoAttrs,
             << Elem("main", NoAttrs,
                   Opt(h, Elem("h1", NoAttrs, <<Text(h)>>))
                   \o UnitListNode(ul)
                   \o <<Para(<<"B", "o", "d", "y">>), Img(<<".", ".", "/", "m", "e", "d", "i", "a", "/", "p", "i", "c", ".", "p", "n", "g">>)>>) >>) >>)>>)

\* every title and heading with one unit list, and every unit list with one
\* title and heading
ModuleDocs ==
    \* the text of the title element and of the heading-1: absent (None),
    \* white space only, or a word; the second unit's reference is rooted at
    \* the host
    {ModuleDoc(t, h, <<(<<U_short, Unit(<<Bar(<<LinkA(<<"/", "t", "/", "u", "3">>, <<"C", "h", "e", "c", "k">>)>>)>>)>>)>>) :
        t \in {None, <<" ">>, <<"D", "o", "c">>},
        h \in {None, <<" ", "\n">>, <<"H", "e", "a", "d">>}}
    \cup {ModuleDoc(<<"D", "o", "c">>, <<"H", "e", "a", "d">>, ul) : ul \in UnitLists}

SectionPages == {
    \* main
    Soup(<<Elem("body", NoAttrs, <<Elem("main", NoAttrs, <<Elem("h1", NoAttrs, <<Text(<<"H", "e", "a", "d">>)>>), Para(<<"B", "o", "d", "y">>), Img(<<".", ".", "/", "m", "e", "d", "i", "a", "/", "p", "i", "c", ".", "p", "n", "g">>)>>)>>)>>),
    \* div.content
    Soup(<<Elem("body", NoAttrs, <<Elem("div", "class" :> <<"content">>, <<Para(<<"B", "o", "d", "y">>)>>)>>)>>),
    \* article, next to an aside
    Soup(<<Elem("body", NoAttrs, <<Elem("article", NoAttrs, <<Para(<<"B", "o", "d", "y">>)>>), Elem("aside", NoAttrs, <<Para(<<"M", "e", "n", "u">>)>>)>>)>>),
    \* no content container: body only
    Soup(<<Elem("body", NoAttrs, <<Para(<<"B", "o", "d", "y">>)>>)>>),
    \* no body
    Soup(<<Para(<<"B", "o", "d", "y">>)>>),
    \* a main inside a nav, then an article
    Soup(<<Elem("body", NoAttrs, <<Elem("nav", NoAttrs, <<Elem("main", NoAttrs, <<Para(<<"M", "e", "n", "u">>)>>)>>), Elem("article", NoAttrs, <<Para(<<"B", "o", "d", "y">>)>>)>>)>>),
    \* an article, then a section with role=main
    Soup(<<Elem("body", NoAttrs, <<Elem("article", NoAttrs, <<Para(<<"M", "e", "n", "u">>)>>), Elem("section", "role" :> "main", <<Para(<<"B", "o", "d", "y">>)>>)>>)>>),
    \* a section with class main-content
    Soup(<<Elem("body", NoAttrs, <<Elem("section", "class" :> <<"main-content">>, <<Para(<<"B", "o", "d", "y">>)>>)>>)>>) }

\* the section identifiers a request may carry
SectionIds == {None, <<"m", "a", "i", "n">>, S_section, S_section \o <<"x">>}
              \cup {SectionId(i) : i \in 0..MaxUnits}

(***************************************************************************)
(* The state: doc is the text of the page at ModuleUrl, module is the       *)
(* module the caller last received from load_module, resp is the response   *)
(* of the last request.                                                    *)
(***************************************************************************)
\* cleanRun and urlRun are the state of the two specifications below
NoClean == [in |-> NoNode, base |-> None, out |-> <<>>, prev |-> <<>>, n |-> 0]

NoUrl == [in |-> <<>>, base |-> None, out |-> <<>>, done |-> FALSE]


Init ==
    /\ doc \in {Serialize(d) : d \in ModuleDocs}
    /\ module = NoModule
    /\ resp = NoResp
    /\ cleanRun = NoClean
    /\ urlRun = NoUrl

ModuleFetches == {FetchOk(doc)} \cup {FetchFail(e) : e \in FetchErrors}

\* the module the caller holds after a response of load_module
Received(held, r) ==
    IF r.kind = "Module" THEN [title |-> r.title, sections |-> r.sections, url |-> r.url] ELSE held

\* POST /load-module
LoadModule ==
    /\ \E u \in {ModuleUrl, <<"h", "t", "t", "p", "s", ":", "/", "/", "e", ".", "o", "r", "g", "/", "m", "/">>, <<>>}, f \in ModuleFetches :
          /\ resp' = load_module(u, f)
          /\ module' = Received(module, resp')
    /\ UNCHANGED <<doc, cleanRun, urlRun>>

\* load_section once the section is resolved: the page of the section is
\* fetched when it has one
SectionResolved(req, section) ==
    IF section = NoSection THEN resp' = SectionNotFound(req)
    ELSE IF HasPage(section)
    THEN \E sf \in ({FetchOk(Serialize(p)) : p \in SectionPages} \cup {FetchFail(e) : e \in FetchErrors}) : resp' = PageContent([req EXCEPT !.secFetch = sf], section, sf)
    ELSE resp' = StoredContent(req, section)

\* load_section once fetch_module has returned or raised
ModuleRefetched(req) ==
    IF ~req.modFetch.ok THEN resp' = SectionError(req, S_FailedModule \o req.modFetch.error)
    ELSE SectionResolved(req, ResolveSection(parse_content(req.modFetch.text, req.url),
                                             SectionIndex(req.section_id)))

\* load_section from the first line: it answers at once, or fetches the module
SectionRequested(early) ==
    IF early.kind # "none" THEN resp' = early
    ELSE \E mf \in ModuleFetches : ModuleRefetched([early EXCEPT !.modFetch = mf])

\* GET /load-section; the outcome of a fetch is chosen, and recorded in the
\* request, where the handler makes the call
LoadSection ==
    /\ \E id \in SectionIds, u \in {ModuleUrl, None} :
          SectionRequested(BeforeFetch(SectionRequest(id, u)))
    /\ UNCHANGED <<doc, module, cleanRun, urlRun>>

Next == LoadModule \/ LoadSection

Spec == Init /\ [][Next]_vars

(***************************************************************************)
(* clean_content applied to a content tree, and again to its own output.    *)
(* cleanRun.in is the node given to the last application, cleanRun.out what it    *)
(* returned, cleanRun.prev what the application before returned, cleanRun.n the   *)
(* number of applications.                                                 *)
(***************************************************************************)
SpecBase == <<"h", "t", "t", "p", "s", ":", "/", "/", "x", "/", "m", "o", "d", "u", "l", "e", "s", "/", "a", "/">>

Heading(t) == Elem("h1", "id" :> "top", <<Text(t)>>)

Blocks == {
    \* two headings
    Heading(<<"H", "e", "a", "d">>),
    Heading(<<"M", "o", "r", "e">>),
    \* a paragraph
    Para(<<"B", "o", "d", "y">>),
    \* a paragraph of white space
    Elem("p", NoAttrs, <<Text(<<" ">>)>>),
    \* a division with an image and no text
    Elem("div", NoAttrs, <<Img(<<".", ".", "/", "m", "e", "d", "i", "a", "/", "p", "i", "c", ".", "p", "n", "g">>)>>),
    \* a division whose only content is a heading-1
    Elem("div", NoAttrs, <<Heading(<<"H", "e", "a", "d">>)>>),
    \* a division whose only content is a progress region
    Elem("div", NoAttrs, <<Elem("div", "class" :> <<"progress">>, <<Text(<<"D", "o", "n", "e">>)>>)>>),
    \* a division with an attribute outside the allow-list
    Elem("div", ("style" :> <<"c", "o", "l", "o", "r", ":", "r", "e", "d">>) @@ ("class" :> <<"note">>), <<Text(<<"B", "o", "d", "y">>)>>),
    \* a script
    Elem("script", NoAttrs, <<Text(<<"x", "=", "1">>)>>),
    \* a hyperlink
    LinkA(<<"u", "2">>, <<"M", "o", "r", "e">>),
    \* bare text
    Text(<<"B", "o", "d", "y">>) }

ContentTrees == {Elem("main", NoAttrs, ks) : ks \in UNION {[1..n -> Blocks] : n \in 0..MaxTop}}

InitClean ==
    /\ cleanRun \in {[NoClean EXCEPT !.in = t, !.base = b] : t \in ContentTrees, b \in {ModuleUrl, SpecBase}}
    /\ doc = <<>>
    /\ module = NoModule
    /\ resp = NoResp
    /\ urlRun = NoUrl

\* clean_content(content, base_url) of the content tree
CleanFirst ==
    /\ cleanRun.n = 0
    /\ cleanRun' = [cleanRun EXCEPT !.out = clean_content(cleanRun.in, cleanRun.base), !.n = 1]
    /\ UNCHANGED <<doc, module, resp, urlRun>>

\* clean_content of the markup that the last application returned
CleanAgain ==
    /\ cleanRun.n >= 1
    /\ cleanRun.n < MaxPasses
    /\ LET content == Parse(cleanRun.out)
       IN  cleanRun' = [cleanRun EXCEPT !.in = content, !.prev = cleanRun.out,
                                  !.out = clean_content(content, cleanRun.base), !.n = @ + 1]
    /\ UNCHANGED <<doc, module, resp, urlRun>>

NextClean == CleanFirst \/ CleanAgain

SpecClean == InitClean /\ [][NextClean]_vars

(***************************************************************************)
(* fix_relative_urls applied to markup with image sources and hyperlink    *)
(* references.                                                             *)
(***************************************************************************)
Refs == {<<".", ".", "/", "m", "e", "d", "i", "a", "/", "p", "i", "c", ".", "p", "n", "g">>, <<"h", "t", "t", "p", "s", ":", "/", "/", "y", "/", "z", ".", "p", "n", "g">>, <<"#", "t", "o", "p">>, <<"m", "a", "i", "l", "t", "o", ":", "a", "@", "b">>, <<"h", "t", "t", "p", "d", "o", "c", "s", "/", "p">>, <<"/", "/", "c", "d", "n", "/", "i", ".", "p", "n", "g">>, <<"/", "a", "b", "s", "/", "q">>, <<"d", "a", "t", "a", ":", "1">>, <<"p", ".", "p", "n", "g">>}

RefMarkup == {Soup(ks) : ks \in UNION {[1..n -> ({Img(r) : r \in Refs} \cup {LinkA(r, <<"M", "o", "r", "e">>) : r \in Refs})] : n \in 1..MaxRefs}}

InitUrl ==
    /\ urlRun \in {[NoUrl EXCEPT !.in = Serialize(m), !.base = b] : m \in RefMarkup, b \in {SpecBase, ModuleUrl}}
    /\ doc = <<>>
    /\ module = NoModule
    /\ resp = NoResp
    /\ cleanRun = NoClean

FixUrls ==
    /\ ~urlRun.done
    /\ urlRun' = [urlRun EXCEPT !.out = fix_relative_urls(urlRun.in, urlRun.base), !.done = TRUE]
    /\ UNCHANGED <<doc, module, resp, cleanRun>>

NextUrl == FixUrls

SpecUrl == InitUrl /\ [][NextUrl]_vars

(***************************************************************************)
(* Properties of module extraction.                                        *)
(***************************************************************************)

\* C1: the outline that module extraction returns is never empty; it is
\* exactly the two fallback entries ("Introduction" with #intro, then
\* "Main Content" with #main) when the document has no unit list or no
\* candidate of the list has a link under its wrapper with a label longer
\* than three characters, and contains no fallback entry otherwise.
C1_OutlineNonEmpty ==
    resp.kind = "Module" =>
        LET soup  == Parse(doc)
            lists == FindAll(soup, ByAttr("ul", "id", "unit-list"))
            units == IF lists = <<>> THEN <<>> ELSE FindAll(lists[1], ByAttr("li", "class", "module-unit"))
            bars(u) == FindAll(u, ByAttr("div", "class", "barLink"))
            links(u) == IF bars(u) = <<>> THEN <<>> ELSE FindAll(bars(u)[1], ByTag("a"))
            labelled(u) == links(u) # <<>> /\ Len(Strip(GetText(links(u)[1]))) > 3
            intro == [title |-> <<"I", "n", "t", "r", "o", "d", "u", "c", "t", "i", "o", "n">>, content |-> <<>>,
                      id |-> <<"s", "e", "c", "t", "i", "o", "n", "-", "0">>, href |-> <<"#", "i", "n", "t", "r", "o">>]
            main  == [title |-> <<"M", "a", "i", "n", " ", "C", "o", "n", "t", "e", "n", "t">>, content |-> <<>>,
                      id |-> <<"s", "e", "c", "t", "i", "o", "n", "-", "1">>, href |-> <<"#", "m", "a", "i", "n">>]
        IN  /\ resp.sections # <<>>
            /\ module.sections = resp.sections
            /\ IF \E i \in 1..Len(units) : labelled(units[i])
               THEN \A j \in 1..Len(resp.sections) :
                       /\ resp.sections[j].href \notin {<<"#", "i", "n", "t", "r", "o">>, <<"#", "m", "a", "i", "n">>}
                       /\ resp.sections[j].title \notin {<<"I", "n", "t", "r", "o", "d", "u", "c", "t", "i", "o", "n">>, <<"M", "a", "i", "n", " ", "C", "o", "n", "t", "e", "n", "t">>}
               ELSE resp.sections = <<intro, main>>

\* C1 witness: a module was extracted from a document whose unit list has
\* candidates, none of them admitted, and the outline is the fallback.
C1_Witness ==
    /\ resp.kind = "Module"
    /\ Len(resp.sections) = 2
    /\ resp.sections[2].href = <<"#", "m", "a", "i", "n">>
    /\ LET lists == FindAll(Parse(doc), ByAttr("ul", "id", "unit-list"))
       IN  lists # <<>> /\ FindAll(lists[1], ByAttr("li", "class", "module-unit")) # <<>>

\* C2: for a document with a unit list, the outline is the admitted
\* candidates in document order, each with the id section-<i> of its
\* zero-based position i among all candidates of the list, its trimmed label
\* as title, its reference as href and empty content; a candidate is admitted
\* if and only if it has a link under its wrapper and the trimmed label is
\* longer than three characters.  (With no admitted candidate the outline is
\* the fallback of C1.)
C2_NavigationOrder ==
    resp.kind = "Module" =>
        LET soup  == Parse(doc)
            lists == FindAll(soup, ByAttr("ul", "id", "unit-list"))
            units == IF lists = <<>> THEN <<>> ELSE FindAll(lists[1], ByAttr("li", "class", "module-unit"))
            bars(u) == FindAll(u, ByAttr("div", "class", "barLink"))
            links(u) == IF bars(u) = <<>> THEN <<>> ELSE FindAll(bars(u)[1], ByTag("a"))
            labelled(u) == links(u) # <<>> /\ Len(Strip(GetText(links(u)[1]))) > 3
            adm == {i \in 1..Len(units) : labelled(units[i])}
            \* the candidate position that the j-th entry of the outline names
            pos(j) == CHOOSE i \in 0..Len(units) :
                         \/ i > 0 /\ resp.sections[j].id = <<"s", "e", "c", "t", "i", "o", "n", "-">> \o Decimal(i - 1)
                         \/ i = 0 /\ \A k \in 1..Len(units) : resp.sections[j].id # <<"s", "e", "c", "t", "i", "o", "n", "-">> \o Decimal(k - 1)
        IN  lists # <<>> /\ adm # {} =>
               /\ Len(resp.sections) = Cardinality(adm)
               /\ \A j \in 1..Len(resp.sections) :
                     /\ pos(j) \in adm
                     /\ resp.sections[j].title = Strip(GetText(links(units[pos(j)])[1]))
                     /\ resp.sections[j].href = links(units[pos(j)])[1].attrs["href"]
                     /\ resp.sections[j].content = <<>>
               /\ \A j, k \in 1..Len(resp.sections) : j < k => pos(j) < pos(k)

\* C2 witness: the first candidate was discarded and the second admitted, so
\* the only entry of the outline has the id section-1.
C2_Witness ==
    /\ resp.kind = "Module"
    /\ Len(resp.sections) = 1
    /\ resp.sections[1].id = <<"s", "e", "c", "t", "i", "o", "n", "-", "1">>
    /\ resp.sections[1].title = <<"U", "n", "i", "t">>

\* C3: the module that extraction returns has a non-empty title.
C3_TitleNonEmpty ==
    resp.kind = "Module" => resp.title # <<>> /\ module.title # <<>>

\* C8: when extraction ends with the fallback outline, the sanitized content
\* of the whole document is the content of the "Main Content" entry of the
\* returned module; when the outline is a real one, the content of every
\* section is empty.
C8_MainContentAvailable ==
    resp.kind = "Module" =>
        IF FindAll(Parse(doc), ByAttr("ul", "id", "unit-list")) = <<>>
        THEN \E j \in 1..Len(resp.sections) :
                /\ resp.sections[j].title = <<"M", "a", "i", "n", " ", "C", "o", "n", "t", "e", "n", "t">>
                /\ resp.sections[j].content = extract_main_content(Parse(doc), resp.url)
        ELSE \A j \in 1..Len(resp.sections) : resp.sections[j].content = <<>>

(***************************************************************************)
(* Properties of section loading.                                          *)
(***************************************************************************)

\* C6: when the section id of a request does not parse to a valid index into
\* the sections of the module (no section- prefix, a suffix that is empty or
\* not a number, or an index at or beyond the number of sections), and the
\* module address is given and its fetch does not fail, the response is
\* SectionNotFound.
C6_SectionNotFound ==
    LET id  == resp.section_id
        n   == Len(extract_navigation(Parse(doc)))
        suffix == SubSeq(id, Len(<<"s", "e", "c", "t", "i", "o", "n", "-">>) + 1, Len(id))
        valid == /\ StartsWith(id, <<"s", "e", "c", "t", "i", "o", "n", "-">>)
                 /\ suffix # <<>>
                 /\ \A i \in 1..Len(suffix) : suffix[i] \in {"0", "1", "2", "3", "4", "5", "6", "7", "8", "9"}
                 /\ \E k \in 0..(n - 1) : suffix = Decimal(k)
    IN  (/\ resp.handler = "load_section"
         /\ id # None
         /\ resp.url = ModuleUrl
         /\ (resp.modFetch = NoFetch \/ resp.modFetch.ok)
         /\ ~valid)
        => resp.kind = "SectionNotFound"

\* C7: when the fetch of a section's page fails, load_section returns a
\* normal response (status 200) whose content is a placeholder that contains
\* the title of the section and the message of the error.
C7_FetchFailureIsDisplayed ==
    (/\ resp.handler = "load_section"
     /\ resp.secFetch # NoFetch
     /\ ~resp.secFetch.ok)
    => LET sections == extract_navigation(Parse(doc))
           text == Concat([i \in 1..Len(resp.content) |-> resp.content[i].text])
       IN  /\ resp.status = 200
           /\ resp.kind = "Section"
           /\ \E j \in 1..Len(sections) :
                 /\ sections[j].href # <<>> /\ sections[j].href[1] # "#"
                 /\ resp.title = sections[j].title
                 /\ Contains(text, sections[j].title)
           /\ Contains(text, resp.secFetch.error)

\* C7 witness: the fetch of a section's page timed out and the response has
\* status 200.
C7_Witness ==
    /\ resp.handler = "load_section"
    /\ resp.secFetch = FetchFail(E_timeout)
    /\ resp.status = 200
    /\ resp.content # <<>>

\* C9: for a section page that was fetched, the section loader selects the
\* node that the content area selector selects for that page (up to the
\* noise nodes the selector removes first), and always selects one.
C9_SameContentNode ==
    (/\ resp.handler = "load_section"
     /\ resp.secFetch.ok)
    => LET soup == Parse(resp.secFetch.text)
       IN  /\ SectionContentNode(soup) # NoNode
           /\ RemoveAll(SectionContentNode(soup), SelectorNoise) = MainContentNode(soup)
           /\ resp.content = extract_main_content(soup, resp.section_url)

\* C10: a request for the id of a section of the module that load_module
\* returned, with the same module address and the same document, resolves to
\* that section.
C10_IdResolvesToItsSection ==
    (/\ resp.handler = "load_section"
     /\ module # NoModule
     /\ resp.url = module.url
     /\ resp.modFetch.ok)
    => \A j \in 1..Len(module.sections) :
          module.sections[j].id = resp.section_id
          => resp.kind = "Section" /\ resp.section = module.sections[j]

(***************************************************************************)
(* Properties of clean_content and fix_relative_urls.                      *)
(***************************************************************************)

\* C4: clean_content is idempotent: applied to the markup that it returned,
\* it returns the same markup.
C4_Idempotent ==
    cleanRun.n >= 2 => cleanRun.out = cleanRun.prev

\* C5: in the markup that fix_relative_urls returns, an image source or
\* hyperlink reference that was absolute (it has a scheme, mailto: included)
\* or fragment-only is unchanged, and every other one is its resolution
\* against the base address.
C5_ReferencesResolved ==
    urlRun.done =>
        LET before == Descendants(Parse(urlRun.in))
            after  == Descendants(Parse(urlRun.out))
            ref(n) == IF n.tag = "img" THEN n.attrs["src"] ELSE n.attrs["href"]
            hasScheme(r) == \E i \in 2..Len(r) :
                               /\ r[i] = ":"
                               /\ \A j \in 1..(i - 1) : r[j] \in SchemeChars
            expected(r) == IF hasScheme(r) \/ r[1] = "#" THEN r ELSE urljoin(urlRun.base, r)
        IN  /\ Len(after) = Len(before)
            /\ \A i \in 1..Len(before) :
                  before[i].tag \in {"img", "a"} =>
                     /\ after[i].tag = before[i].tag
                     /\ ref(after[i]) = expected(ref(before[i]))

====
